---- MODULE Spec2Model ----
(***************************************************************************)
(* Model of src/src/G4Geometry.cpp: the DetectorConstruction singleton     *)
(* (box dimensions, detector offset, normalised spectrum table), the scene *)
(* graph built by Construct and torn down by G4Goupil::DropGeometry, and   *)
(* the two samplers RandomiseState (forward) and RandomiseBackward with    *)
(* their bulk entry points g4randomize_states and g4randomize_backward.    *)
(*                                                                         *)
(* Arithmetic.  The code computes in double precision with CLHEP units     *)
(* (mm = 1).  The model computes exactly, on integers:                     *)
(*   - a length is a whole number of micrometres (um = 1);                 *)
(*   - an area is a whole number of square metres;                         *)
(*   - a uniform deviate G4UniformRand() is k / UDen with 0 < k < UDen,    *)
(*     and is carried as its numerator k;                                  *)
(*   - a direction cosine is a whole number of 1/DirDen;                   *)
(*   - an energy is a whole multiple of emin (1E-02);                      *)
(*   - a cumulative probability is an IEEE-style extended rational         *)
(*     (finite n/d, +-inf, NaN);                                           *)
(*   - a weight is (n/d) * pi^pi, times energy*lnr when aux is non-empty.  *)
(* The deviates offered to each G4UniformRand() call are chosen so that    *)
(* every square root and every sine/cosine taken of them is exact.         *)
(* Rounding of doubles is not modelled.                                    *)
(***************************************************************************)
EXTENDS Integers, Sequences, FiniteSets, TLC

VARIABLES
    rawSpectrum,  \* in-class initialiser of DetectorConstruction::spectrum
    detector,     \* the object behind DetectorConstruction::Singleton()
    pc,           \* position of the (single) calling thread
    size,         \* remaining count of the running bulk loop
    state,        \* the goupil_state the bulk loop's pointer addresses
    src,          \* the sources_energies slot the pointer addresses
    alpha,        \* argument of the running g4randomize_backward
    loc,          \* locals of the running RandomiseState/RandomiseBackward
    twin,         \* same RandomiseBackward draws replayed with another alpha
    scene,        \* Geant4 objects created by Construct, per call
    stack         \* call stack of G4Goupil::DropGeometry

vars == <<rawSpectrum, detector, pc, size, state, src, alpha, loc, twin,
          scene, stack>>

----------------------------------------------------------------------------
(* Bounds of the model. *)

\* largest `size` a bulk entry point is called with
MaxSize == 2

\* largest number of NewGeometry calls
MaxTrees == 2

----------------------------------------------------------------------------
(* CLHEP units, as whole micrometres. *)

um == 1
mm == 1000 * um
cm == 10 * mm
m == 1000 * mm
km == 1000 * m

\* a uniform deviate is k / UDen
UDen == 10 ^ 5

\* a direction cosine is h / DirDen
DirDen == 10 ^ 2

\* floor of the log-uniform auxiliary energy distribution (1E-02), the energy unit
emin == 1

Axes == 0 .. 2

Abs(x) == IF x < 0 THEN -x ELSE x

RECURSIVE Gcd(_, _)
Gcd(a, b) == IF b = 0 THEN Abs(a) ELSE Gcd(Abs(b), Abs(a) % Abs(b))

\* 0.5 * x
Half(x) == x \div 2

\* size * (0.5 - G4UniformRand()), with the deviate k / UDen
ScaleHalfMinus(len, k) == (len \div (2 * UDen)) * (UDen - 2 * k)

\* a * b for two lengths, in square metres
Area(a, b) == (a \div m) * (b \div m)

\* the whole a with a * a = x, by bisection (x is a perfect square <= DirDen^2)
Root(x) ==
    LET RECURSIVE Bisect(_, _)
        Bisect(lo, hi) ==
            IF lo = hi THEN lo
            ELSE LET mid == (lo + hi + 1) \div 2
                 IN  IF mid * mid <= x THEN Bisect(mid, hi)
                     ELSE Bisect(lo, mid - 1)
    IN  Bisect(0, DirDen)

\* std::sqrt of x / DirDen^2, in 1/DirDen
SqrtH(x) == Root(x)

\* cos and sin of phi = 2 * M_PI * (k / UDen), at the quarter turns
CosPhi(k) == CASE 4 * k = UDen -> 0 [] 4 * k = 2 * UDen -> -1 [] 4 * k = 3 * UDen -> 0
SinPhi(k) == CASE 4 * k = UDen -> 1 [] 4 * k = 2 * UDen -> 0 [] 4 * k = 3 * UDen -> -1

----------------------------------------------------------------------------
(* Doubles that may be infinite or NaN: the cumulative weights. *)

Fin(n, d) ==
    LET g == Gcd(n, d)
        s == IF d < 0 THEN -1 ELSE 1
    IN  [k |-> "fin", n |-> s * (n \div g), d |-> s * (d \div g)]
Inf(sign) == [k |-> "inf", n |-> sign, d |-> 0]
NaN == [k |-> "nan", n |-> 0, d |-> 0]

\* 1.0 / x for a whole x (IEEE: 1.0 / 0.0 is +inf)
XInv(x) == IF x = 0 THEN Inf(1) ELSE Fin(1, x)

\* i * x for a whole i (IEEE: 0 * inf is NaN)
XMulInt(i, x) ==
    CASE x.k = "fin" -> Fin(i * x.n, x.d)
      [] x.k = "inf" -> IF i = 0 THEN NaN ELSE Inf(IF i > 0 THEN x.n ELSE -x.n)
      [] x.k = "nan" -> NaN

\* a + b (IEEE: inf - inf is NaN)
XAdd(a, b) ==
    CASE a.k = "nan" \/ b.k = "nan" -> NaN
      [] a.k = "inf" /\ b.k = "inf" -> IF a.n = b.n THEN a ELSE NaN
      [] a.k = "inf" -> a
      [] b.k = "inf" -> b
      [] OTHER -> Fin(a.n * b.d + b.n * a.d, a.d * b.d)

\* (k / UDen) <= x (IEEE: every comparison with NaN is false)
ULeq(k, x) ==
    CASE x.k = "fin" -> k * x.d <= x.n * UDen
      [] x.k = "inf" -> x.n > 0
      [] x.k = "nan" -> FALSE

----------------------------------------------------------------------------
(* DetectorConstruction::DetectorConstruction *)

Vec(x, y, z) == [i \in Axes |-> CASE i = 0 -> x [] i = 1 -> y [] i = 2 -> z]

detectorSize0 == Vec(20 * m, 20 * m, 10 * m)
airSize0 == Vec(2 * km, 2 * km, 1 * km)
groundSize0 == Vec(airSize0[0], airSize0[1], 1 * m)
worldSize0 == Vec(airSize0[0], airSize0[1], groundSize0[2] + airSize0[2])

detectorOffset0 ==
    Half(-airSize0[2] + detectorSize0[2] + groundSize0[2]) + 5 * cm

\* norm after the first loop: the sum of the intensities
SumIntensities(spectrum) ==
    LET RECURSIVE Sum(_)
        Sum(i) == IF i = 0 THEN 0 ELSE Sum(i - 1) + spectrum[i].second
    IN  Sum(Len(spectrum))

\* the second loop: pair.second becomes the running cdf
Normalize(spectrum) ==
    LET norm == XInv(SumIntensities(spectrum))
        RECURSIVE Cdf(_)
        Cdf(i) == IF i = 0 THEN Fin(0, 1)
                  ELSE XAdd(Cdf(i - 1), XMulInt(spectrum[i].second, norm))
    IN  [i \in 1 .. Len(spectrum) |->
            [first |-> spectrum[i].first, second |-> Cdf(i)]]

NullDetector ==
    [alive |-> FALSE, detectorSize |-> Vec(0, 0, 0), airSize |-> Vec(0, 0, 0),
     groundSize |-> Vec(0, 0, 0), worldSize |-> Vec(0, 0, 0),
     detectorOffset |-> 0, spectrum |-> <<>>]

DetectorConstruction(spectrum) ==
    [alive |-> TRUE, detectorSize |-> detectorSize0, airSize |-> airSize0,
     groundSize |-> groundSize0, worldSize |-> worldSize0,
     detectorOffset |-> detectorOffset0, spectrum |-> Normalize(spectrum)]

----------------------------------------------------------------------------
(* struct goupil_state, and the values its fields take. *)

\* x / CLHEP::cm
InCm(x) == [n |-> x, d |-> cm]

\* an energy read from the spectrum table
EnergyValue(e) == [kind |-> "value", e |-> e, u |-> 0]

\* emin * std::exp(std::log(source_energy / emin) * (k / UDen))
LogUniform(source_energy, k) == [kind |-> "loguniform", e |-> source_energy, u |-> k]

\* the weight (n / d) * pi^pi, times energy * lnr of the log-uniform draw when
\* aux = <<source_energy, k>>
Weight(n, d, pi, aux) ==
    LET g == Gcd(n, d)
        s == IF d < 0 THEN -1 ELSE 1
    IN  [n |-> s * (n \div g), d |-> s * (d \div g), pi |-> pi, aux |-> aux]

\* a slot of the caller's buffer before the sampler writes to it
FreshSlot(w0) ==
    [energy |-> EnergyValue(0),
     position |-> Vec(InCm(0), InCm(0), InCm(0)),
     direction |-> Vec(0, 0, 0),
     weight |-> Weight(w0, 1, 0, <<>>)]

\* values of `weight` the caller may have left in a slot
PriorWeights == {1, 2}

LocInit ==
    [position |-> Vec(0, 0, 0), axis |-> 0, dir |-> 0, c |-> Vec(0, 0, 0),
     r |-> 0, u |-> 0, source_energy |-> 0]

\* alpha = n / d
Alphas == {[n |-> k, d |-> 2] : k \in -1 .. 3}

TwinInit ==
    [alpha |-> [n |-> 0, d |-> 2], state |-> FreshSlot(1), source_energy |-> 0]

----------------------------------------------------------------------------
(* Energy sampling from the spectrum table (inverse CDF). *)

\* SampleEnergy with u < pair.second for u <= pair.second
SampleEnergyStrict(spectrum, k) ==
    LET Less(x) == CASE x.k = "fin" -> k * x.d < x.n * UDen
                     [] x.k = "inf" -> x.n > 0
                     [] x.k = "nan" -> FALSE
        RECURSIVE Scan(_)
        Scan(i) == IF i > Len(spectrum) THEN spectrum[Len(spectrum)].first
                   ELSE IF Less(spectrum[i].second) THEN spectrum[i].first
                   ELSE Scan(i + 1)
    IN  Scan(1)

\* energy = spectrum.back().first; for (pair: spectrum) if (u <= pair.second)
\* { energy = pair.first; break; }
SampleEnergy(spectrum, k) ==
    LET RECURSIVE Scan(_)
        Scan(i) == IF i > Len(spectrum) THEN spectrum[Len(spectrum)].first
                   ELSE IF ULeq(k, spectrum[i].second) THEN spectrum[i].first
                   ELSE Scan(i + 1)
    IN  Scan(1)

----------------------------------------------------------------------------
(* DetectorConstruction::RandomiseState *)

\* direction from the deviates k1 (cosTheta) and k2 (phi)
IsotropicDirection(k1, k2) ==
    LET cosTheta == (2 * k1 - UDen) \div (UDen \div DirDen)
        sinTheta == SqrtH(DirDen * DirDen - cosTheta * cosTheta)
    IN  Vec((sinTheta * CosPhi(k2)), (sinTheta * SinPhi(k2)), cosTheta)

\* one pass of the rejection loop: the point drawn in the air box
DrawInAir(d, kx, ky, kz) ==
    LET airOffset == Half(d.groundSize[2])
    IN  Vec(ScaleHalfMinus(d.airSize[0], kx),
            ScaleHalfMinus(d.airSize[1], ky),
            ScaleHalfMinus(d.airSize[2], kz) + airOffset)

\* OutsideDetector with >= for > : a point on a face of the detector passes
OutsideDetectorGe(d, position) ==
    \/ Abs(position[0]) >= Half(d.detectorSize[0])
    \/ Abs(position[1]) >= Half(d.detectorSize[1])
    \/ Abs(position[2] - d.detectorOffset) >= Half(d.detectorSize[2])

\* the condition under which the rejection loop breaks
OutsideDetector(d, position) ==
    \/ Abs(position[0]) > Half(d.detectorSize[0])
    \/ Abs(position[1]) > Half(d.detectorSize[1])
    \/ Abs(position[2] - d.detectorOffset) > Half(d.detectorSize[2])

\* the fields RandomiseState writes once the loop has broken
WritePosition(s, position) ==
    [s EXCEPT !.position = Vec(InCm(position[0]), InCm(position[1]),
                               InCm(position[2]))]

----------------------------------------------------------------------------
(* DetectorConstruction::RandomiseBackward *)

\* c[axis]: running sum of the areas of the faces normal to axis 0 .. axis
FaceAreas(d) ==
    LET a(axis) == Area(d.detectorSize[(axis + 1) % 3],
                        d.detectorSize[(axis + 2) % 3])
    IN  Vec(a(0), a(0) + a(1), a(0) + a(1) + a(2))

\* for (axis = 0; axis < 3; axis++) if (r <= c[axis]) break;
\* if (axis == 3) axis = 2;        with r = s * (k / UDen), s = c[2]
SelectAxis(c, k) ==
    LET RECURSIVE Scan(_)
        Scan(axis) == IF axis = 3 THEN 3
                      ELSE IF c[2] * k <= c[axis] * UDen THEN axis
                      ELSE Scan(axis + 1)
        found == Scan(0)
    IN  IF found = 3 THEN 2 ELSE found

\* dir = ((c[axis] - r) > 0.5 * delta) ? -1 : 1
SelectDir(c, axis, k) ==
    LET delta == IF axis > 0 THEN c[axis] - c[axis - 1] ELSE c[0]
    IN  IF 2 * (c[axis] * UDen - c[2] * k) > delta * UDen THEN -1 ELSE 1

\* position[] before the division by CLHEP::cm
FacePosition(d, axis, dir, k1, k2) ==
    LET detectorPosition == Vec(0, 0, d.detectorOffset)
        i1 == (axis + 1) % 3
        i2 == (axis + 2) % 3
    IN  [i \in Axes |->
            CASE i = axis -> dir * (Half(d.detectorSize[axis]) + 1 * um)
                             + detectorPosition[axis]
              [] i = i1 -> ScaleHalfMinus(d.detectorSize[i1], k1)
                           + detectorPosition[i1]
              [] i = i2 -> ScaleHalfMinus(d.detectorSize[i2], k2)
                           + detectorPosition[i2]]

\* std::sqrt of k / UDen, in 1/DirDen
SqrtU(k) == Root((k * DirDen * DirDen) \div UDen)

\* InwardDirection with dir for -dir: the direction leaves the detector
OutwardDirection(axis, dir, ku, kphi) ==
    LET cos_theta == SqrtU(ku)
        sin_theta == SqrtU(UDen - ku)
    IN  [i \in Axes |->
            CASE i = axis -> dir * cos_theta
              [] i = (axis + 1) % 3 -> dir * sin_theta * CosPhi(kphi)
              [] i = (axis + 2) % 3 -> dir * sin_theta * SinPhi(kphi)]

\* direction[] from the deviates ku (cos_theta = sqrt(u)) and kphi
InwardDirection(axis, dir, ku, kphi) ==
    LET cos_theta == SqrtU(ku)
        sin_theta == SqrtU(UDen - ku)
    IN  [i \in Axes |->
            CASE i = axis -> -dir * cos_theta
              [] i = (axis + 1) % 3 -> -dir * sin_theta * CosPhi(kphi)
              [] i = (axis + 2) % 3 -> -dir * sin_theta * SinPhi(kphi)]

\* w = 2 * c[2] / CLHEP::cm2; ... w *= M_PI;
GeometricWeight(c) == Weight(2 * c[2] * (m \div cm) * (m \div cm), 1, 1, <<>>)

\* G4UniformRand() < alpha, with alpha = a.n / a.d
ULess(k, a) == k * a.d < a.n * UDen

\* EnergyBranch with the test inverted (alpha < G4UniformRand())
EnergyBranchInverted(a, source_energy, w, kb, ka) ==
    IF ~ULess(kb, a)
    THEN [energy |-> EnergyValue(source_energy),
          w |-> Weight(w.n * a.d, w.d * a.n, w.pi, w.aux)]
    ELSE [energy |-> LogUniform(source_energy, ka),
          w |-> Weight(w.n * a.d, w.d * (a.d - a.n), w.pi,
                       <<source_energy, ka>>)]

\* the energy / weight branch: [energy, w]
EnergyBranch(a, source_energy, w, kb, ka) ==
    IF ULess(kb, a)
    THEN [energy |-> EnergyValue(source_energy),
          w |-> Weight(w.n * a.d, w.d * a.n, w.pi, w.aux)]
    ELSE [energy |-> LogUniform(source_energy, ka),
          w |-> Weight(w.n * a.d, w.d * (a.d - a.n), w.pi,
                       <<source_energy, ka>>)]

\* ReturnValue returning the particle energy (`return energy;`); a log-uniform
\* energy is given by its floor emin
ReturnEnergy(source_energy, energy) ==
    IF energy.kind = "value" THEN energy.e ELSE emin

\* the value RandomiseBackward returns
ReturnValue(source_energy, energy) == source_energy

\* the whole call on the deviates q, in the order the code draws them:
\* q.r, q.p1, q.p2, q.u, q.phi, q.zeta, q.b and, in the else branch, q.e
RandomiseBackward(d, a, q) ==
    LET c == FaceAreas(d)
        axis == SelectAxis(c, q.r)
        dir == SelectDir(c, axis, q.r)
        position == FacePosition(d, axis, dir, q.p1, q.p2)
        direction == InwardDirection(axis, dir, q.u, q.phi)
        source_energy == SampleEnergy(d.spectrum, q.zeta)
        br == EnergyBranch(a, source_energy, GeometricWeight(c), q.b, q.e)
    IN  [state |-> [energy |-> br.energy,
                    position |-> Vec(InCm(position[0]), InCm(position[1]),
                                     InCm(position[2])),
                    direction |-> direction,
                    weight |-> br.w],
         source_energy |-> ReturnValue(source_energy, br.energy),
         loc |-> [position |-> position, axis |-> axis, dir |-> dir, c |-> c,
                  r |-> q.r, u |-> q.zeta, source_energy |-> source_energy]]

----------------------------------------------------------------------------
(* The scene graph: G4Box, G4LogicalVolume and G4PVPlacement objects.  Every  *)
(* logical volume of this scene has one solid and one placement, so the three *)
(* objects share a name.                                                       *)

Names == {"World", "Air", "Ground", "Detector"}

Kinds == {"solid", "logical", "placement"}

EmptyScene ==
    [status |-> "none",
     half |-> [v \in Names |-> Vec(0, 0, 0)],
     pos |-> [v \in Names |-> Vec(0, 0, 0)],
     mother |-> [v \in Names |-> "none"],
     daughters |-> [v \in Names |-> <<>>],
     freed |-> <<>>]

\* new G4Box, new G4LogicalVolume, new G4PVPlacement (which registers itself
\* as the last daughter of motherVolume)
PlaceInVolume(sc, name, dim, pos, motherVolume) ==
    [sc EXCEPT !.half[name] = [i \in Axes |-> Half(dim[i])],
               !.pos[name] = pos,
               !.mother[name] = motherVolume,
               !.daughters[motherVolume] = Append(@, name)]

\* DetectorPlacement without the shift to the Air volume's frame
DetectorPlacementNoShift(d) == Vec(0, 0, d.detectorOffset)

\* position of the Detector placement inside the Air volume
DetectorPlacement(d) == Vec(0, 0, d.detectorOffset - Half(d.groundSize[2]))

Construct(d) ==
    LET world == [EmptyScene EXCEPT
                     !.status = "built",
                     !.half["World"] = [i \in Axes |-> Half(d.worldSize[i])]]
        air == PlaceInVolume(world, "Air", d.airSize,
                             Vec(0, 0, Half(d.groundSize[2])), "World")
        ground == PlaceInVolume(air, "Ground", d.groundSize,
                                Vec(0, 0, -Half(d.airSize[2])), "World")
    IN  PlaceInVolume(ground, "Detector", d.detectorSize,
                      DetectorPlacement(d), "Air")

\* DeleteVolume without `delete logical->GetSolid()`
DeleteVolumeLeak(freed, volume) ==
    freed \o <<<<"logical", volume>>, <<"placement", volume>>>>

\* delete logical->GetSolid(); delete logical; delete volume;
DeleteVolume(freed, volume) ==
    freed \o <<<<"solid", volume>>, <<"logical", volume>>, <<"placement", volume>>>>

----------------------------------------------------------------------------
(* The deviates offered to each G4UniformRand() call. *)

DrawsCosTheta == {20000, 80000}
DrawsPhi == {25000, 50000}
DrawsX == {1, 49500, 50000}
DrawsY == {49500, 99999}
DrawsZ == {1, 98995, 99495, 99999}
DrawsEnergy == {25000, 30000, 90000}
DrawsFace == {10000, 12500, 25000, 30000, 45000, 60000, 90000}
DrawsFaceU == {1, 99999}
DrawsCosine == {36000, 64000}
DrawsBranch == {25000, 75000}
DrawsAux == {50000}

BackwardDraws ==
    [r : DrawsFace, p1 : DrawsFaceU, p2 : DrawsFaceU, u : DrawsCosine,
     phi : DrawsPhi, zeta : DrawsEnergy, b : DrawsBranch, e : DrawsAux]

\* the (energy, intensity) tables the class may be compiled with
Pair(e, i) == [first |-> e, second |-> i]
RawSpectra ==
    { <<Pair(50, 1), Pair(100, 1), Pair(200, 2)>>,
      <<Pair(50, 2), Pair(100, 0), Pair(150, 1)>>,
      <<Pair(100, 1)>>,
      <<Pair(50, 0), Pair(100, 0)>> }

----------------------------------------------------------------------------
(* State machine. *)

Init ==
    /\ rawSpectrum \in RawSpectra
    /\ detector = NullDetector
    /\ pc = "idle"
    /\ size = 0
    /\ state = FreshSlot(1)
    /\ src = 0
    /\ alpha = [n |-> 0, d |-> 2]
    /\ loc = LocInit
    /\ twin = TwinInit
    /\ scene = [t \in 1 .. MaxTrees |-> EmptyScene]
    /\ stack = <<>>

\* what 1.0 / norm does when norm is 0.0: the IEEE quotient, or a trap when the
\* process runs with floating-point exceptions unmasked
DivisionOutcomes(spectrum) ==
    IF SumIntensities(spectrum) = 0 THEN {"ieee", "trap"} ELSE {"ieee"}

\* DetectorConstruction::Singleton(), called at `from` and returning to `to`
Singleton(from, to) ==
    /\ pc = from
    /\ IF detector.alive
       THEN /\ pc' = to
            /\ UNCHANGED detector
       ELSE \E outcome \in DivisionOutcomes(rawSpectrum) :
               IF outcome = "ieee"
               THEN /\ detector' = DetectorConstruction(rawSpectrum)
                    /\ pc' = to
               ELSE /\ pc' = "aborted"
                    /\ UNCHANGED detector
    /\ UNCHANGED <<rawSpectrum, size, state, src, alpha, loc, twin, scene, stack>>

\* g4randomize_states(size, states): entry, and the loop test
g4randomize_states(n, w0) ==
    /\ pc = "idle"
    /\ size' = n
    /\ IF n > 0
       THEN /\ state' = FreshSlot(w0)
            /\ loc' = LocInit
            /\ pc' = "fwd_call"
       ELSE UNCHANGED <<state, loc, pc>>
    /\ UNCHANGED <<rawSpectrum, detector, src, alpha, twin, scene, stack>>

\* RandomiseState, lines 124-133
FwdDirection(k1, k2) ==
    /\ pc = "fwd_direction"
    /\ state' = [state EXCEPT !.direction = IsotropicDirection(k1, k2)]
    /\ pc' = "fwd_loop"
    /\ UNCHANGED <<rawSpectrum, detector, size, src, alpha, loc, twin, scene, stack>>

\* RandomiseState, one pass of the rejection loop and, on break, lines 150-152
FwdLoop(kx, ky, kz) ==
    /\ pc = "fwd_loop"
    /\ LET position == DrawInAir(detector, kx, ky, kz)
       IN  /\ loc' = [loc EXCEPT !.position = position]
           /\ IF OutsideDetector(detector, position)
              THEN /\ state' = WritePosition(state, position)
                   /\ pc' = "fwd_energy"
              ELSE UNCHANGED <<state, pc>>
    /\ UNCHANGED <<rawSpectrum, detector, size, src, alpha, twin, scene, stack>>

\* RandomiseState, lines 154-162, and the return
FwdEnergy(k) ==
    /\ pc = "fwd_energy"
    /\ state' = [state EXCEPT
                    !.energy = EnergyValue(SampleEnergy(detector.spectrum, k))]
    /\ loc' = [loc EXCEPT !.u = k]
    /\ pc' = "fwd_next"
    /\ UNCHANGED <<rawSpectrum, detector, size, src, alpha, twin, scene, stack>>

\* g4randomize_states: size--, states++ (the pointer leaves the slot just
\* filled, also after the last one) and the loop test
FwdNext(w0) ==
    /\ pc = "fwd_next"
    /\ size' = size - 1
    /\ state' = FreshSlot(w0)
    /\ loc' = LocInit
    /\ pc' = IF size' > 0 THEN "fwd_call" ELSE "idle"
    /\ UNCHANGED <<rawSpectrum, detector, src, alpha, twin, scene, stack>>

\* g4randomize_backward(alpha, size, states, sources_energies): entry (the call
\* writes every field of a slot, so one prior content stands for all)
g4randomize_backward(a, n) ==
    /\ pc = "idle"
    /\ alpha' = a
    /\ size' = n
    /\ IF n > 0
       THEN /\ state' = FreshSlot(1)
            /\ src' = 0
            /\ loc' = LocInit
            /\ twin' = TwinInit
            /\ pc' = "bwd_call"
       ELSE UNCHANGED <<state, src, loc, twin, pc>>
    /\ UNCHANGED <<rawSpectrum, detector, scene, stack>>

\* *sources_energies = RandomiseBackward(alpha, states), on the deviates q;
\* twin replays the call on the same deviates with the argument a2
BwdSample(q, a2) ==
    /\ pc = "bwd_sample"
    /\ \E res \in {RandomiseBackward(detector, alpha, q)},
          res2 \in {RandomiseBackward(detector, a2, q)} :
           /\ state' = res.state
           /\ src' = res.source_energy
           /\ loc' = res.loc
           /\ twin' = [alpha |-> a2, state |-> res2.state,
                       source_energy |-> res2.source_energy]
    /\ pc' = "bwd_next"
    /\ UNCHANGED <<rawSpectrum, detector, size, alpha, scene, stack>>

\* g4randomize_backward: size--, states++, sources_energies++ and the loop test
BwdNext ==
    /\ pc = "bwd_next"
    /\ size' = size - 1
    /\ state' = FreshSlot(1)
    /\ src' = 0
    /\ loc' = LocInit
    /\ twin' = TwinInit
    /\ pc' = IF size' > 0 THEN "bwd_call" ELSE "idle"
    /\ UNCHANGED <<rawSpectrum, detector, alpha, scene, stack>>

\* G4Goupil::NewGeometry: entry
NewGeometry(t) ==
    /\ pc = "idle"
    /\ scene[t].status = "none"
    /\ \A x \in 1 .. t - 1 : scene[x].status # "none"
    /\ pc' = "geom_call"
    /\ UNCHANGED <<rawSpectrum, detector, size, state, src, alpha, loc, twin,
                   scene, stack>>

\* DetectorConstruction::Construct, and the return of NewGeometry
ConstructScene(t) ==
    /\ pc = "construct"
    /\ scene[t].status = "none"
    /\ \A x \in 1 .. t - 1 : scene[x].status # "none"
    /\ scene' = [scene EXCEPT ![t] = Construct(detector)]
    /\ pc' = "idle"
    /\ UNCHANGED <<rawSpectrum, detector, size, state, src, alpha, loc, twin,
                   stack>>

\* G4Goupil::DropGeometry(volume) called on the top placement of scene t
DropGeometry(t) ==
    /\ pc = "idle"
    /\ scene[t].status = "built"
    /\ scene' = [scene EXCEPT ![t].status = "dropped"]
    /\ stack' = <<[t |-> t, volume |-> "World"]>>
    /\ pc' = "drop"
    /\ UNCHANGED <<rawSpectrum, detector, size, state, src, alpha, loc, twin>>

\* the while loop's body: detach daughter 0 and recurse into it
DropDaughter ==
    /\ pc = "drop"
    /\ LET top == stack[Len(stack)]
           logical == top.volume
       IN  /\ Len(scene[top.t].daughters[logical]) # 0
           /\ LET daughter == scene[top.t].daughters[logical][1]
              IN  /\ scene' = [scene EXCEPT ![top.t].daughters[logical] = Tail(@)]
                  /\ stack' = Append(stack, [t |-> top.t, volume |-> daughter])
    /\ UNCHANGED <<rawSpectrum, detector, pc, size, state, src, alpha, loc, twin>>

\* the while loop's exit: the three deletes and the return
DropDelete ==
    /\ pc = "drop"
    /\ LET top == stack[Len(stack)]
           logical == top.volume
       IN  /\ Len(scene[top.t].daughters[logical]) = 0
           /\ scene' = [scene EXCEPT
                           ![top.t].freed = DeleteVolume(@, top.volume)]
           /\ stack' = SubSeq(stack, 1, Len(stack) - 1)
           /\ pc' = IF Len(stack) = 1 THEN "idle" ELSE "drop"
    /\ UNCHANGED <<rawSpectrum, detector, size, state, src, alpha, loc, twin>>

Sizes == 0 .. MaxSize

NextFwd ==
    \/ \E n \in Sizes, w0 \in PriorWeights : g4randomize_states(n, w0)
    \/ Singleton("fwd_call", "fwd_direction")
    \/ \E k1 \in DrawsCosTheta, k2 \in DrawsPhi : FwdDirection(k1, k2)
    \/ \E kx \in DrawsX, ky \in DrawsY, kz \in DrawsZ : FwdLoop(kx, ky, kz)
    \/ \E k \in DrawsEnergy : FwdEnergy(k)
    \/ \E w0 \in PriorWeights : FwdNext(w0)

NextBwd ==
    \/ \E a \in Alphas, n \in Sizes : g4randomize_backward(a, n)
    \/ Singleton("bwd_call", "bwd_sample")
    \/ \E q \in BackwardDraws, a2 \in Alphas : BwdSample(q, a2)
    \/ BwdNext

NextGeom ==
    \/ \E t \in 1 .. MaxTrees : NewGeometry(t)
    \/ Singleton("geom_call", "construct")
    \/ \E t \in 1 .. MaxTrees : ConstructScene(t)
    \/ \E t \in 1 .. MaxTrees : DropGeometry(t)
    \/ DropDaughter
    \/ DropDelete

Next == NextFwd \/ NextBwd \/ NextGeom

Spec == Init /\ [][Next]_vars

\* the forward sampler alone
SpecFwd == Init /\ [][NextFwd]_vars

\* the backward sampler alone
SpecBwd == Init /\ [][NextBwd]_vars

\* the scene graph alone; a DropGeometry call that has started runs on
SpecGeom == Init /\ [][NextGeom]_vars /\ WF_vars(DropDaughter \/ DropDelete)

----------------------------------------------------------------------------
(* Properties. *)

One == Weight(1, 1, 0, <<>>)

\* a < b for two lengths over the same unit
RLt(a, b) == a.d = b.d /\ a.n < b.n

InUnit(a) == 0 <= a.n /\ a.n <= a.d

\* C1: when RandomiseState has returned, the weight of the state is 1.0,
\* whatever the slot held before.
C1_ForwardWeightIsOne == pc = "fwd_next" => state.weight = One

\* C2: the position RandomiseState writes lies strictly inside the air box as
\* placed in the world (centre shifted up by half the ground thickness) and
\* strictly outside the detector's extent on at least one axis; it is the
\* point on which the rejection loop broke.
C2_ForwardPosition ==
    pc \in {"fwd_energy", "fwd_next"} =>
        LET d == detector
            p == state.position
            airCentre == Vec(0, 0, Half(d.groundSize[2]))
            detCentre == Vec(0, 0, d.detectorOffset)
        IN  /\ \A i \in Axes : p[i] = InCm(loc.position[i])
            /\ \A i \in Axes :
                  /\ RLt(InCm(airCentre[i] - Half(d.airSize[i])), p[i])
                  /\ RLt(p[i], InCm(airCentre[i] + Half(d.airSize[i])))
            /\ \E i \in Axes :
                  \/ RLt(InCm(detCentre[i] + Half(d.detectorSize[i])), p[i])
                  \/ RLt(p[i], InCm(detCentre[i] - Half(d.detectorSize[i])))

\* C2 witness: a returned position that is within the detector's extent on x
\* and on y, and outside it on z only.
C2_Witness ==
    /\ pc = "fwd_next"
    /\ Abs(loc.position[0]) <= Half(detector.detectorSize[0])
    /\ Abs(loc.position[1]) <= Half(detector.detectorSize[1])
    /\ Abs(loc.position[2] - detector.detectorOffset)
          > Half(detector.detectorSize[2])

\* the sum over the three axes of the area of the detector face normal to the
\* axis, in cm2
TotalAreaCm2(d) ==
    LET e(i) == d.detectorSize[i] \div cm
    IN  e(1) * e(2) + e(2) * e(0) + e(0) * e(1)

\* C3: with alpha = 1 the energy written equals the source energy returned, the
\* weight is exactly 2 x totalArea x pi, and the log-uniform branch is not taken.
C3_AlphaOne ==
    (pc = "bwd_next" /\ alpha.n = alpha.d) =>
        /\ state.energy = EnergyValue(src)
        /\ state.energy.kind # "loguniform"
        /\ state.weight =
              [n |-> 2 * TotalAreaCm2(detector), d |-> 1, pi |-> 1, aux |-> <<>>]

\* C3 witness: a RandomiseBackward call with alpha = 1 has returned.
C3_Witness == pc = "bwd_next" /\ alpha.n = alpha.d /\ src > 0

\* the sum of the first i intensities
PrefixSum(spectrum, i) == SumIntensities(SubSeq(spectrum, 1, i))

\* the cumulative weight x is >= k / UDen
AtLeast(x, k) ==
    \/ x.k = "fin" /\ x.n * UDen >= k * x.d
    \/ x.k = "inf" /\ x.n > 0

\* C4: the table holds, in input order, the energies and the running sums of
\* the intensities divided by their total ((1,1,2) gives (1/4, 1/2, 1)); the
\* energy sampled with u is that of the first entry whose cumulative weight is
\* >= u (u = 0.3 on that table gives the second energy), and the last entry's
\* when there is none.
C4_SpectrumTable ==
    LET raw == rawSpectrum
        table == detector.spectrum
        total == SumIntensities(raw)
        hits == {i \in 1 .. Len(table) : AtLeast(table[i].second, loc.u)}
        first == CHOOSE i \in hits : \A j \in hits : i <= j
    IN  /\ (detector.alive /\ total > 0) =>
              /\ Len(table) = Len(raw)
              /\ \A i \in 1 .. Len(raw) :
                    /\ table[i].first = raw[i].first
                    /\ table[i].second.k = "fin"
                    /\ table[i].second.n * total
                          = PrefixSum(raw, i) * table[i].second.d
                    /\ table[i].second.d > 0
        /\ (detector.alive
              /\ [i \in 1 .. Len(raw) |-> raw[i].second] = <<1, 1, 2>>) =>
              [i \in 1 .. 3 |-> table[i].second]
                 = <<[k |-> "fin", n |-> 1, d |-> 4],
                     [k |-> "fin", n |-> 1, d |-> 2],
                     [k |-> "fin", n |-> 1, d |-> 1]>>
        /\ pc = "fwd_next" =>
              state.energy = EnergyValue(IF hits # {} THEN table[first].first
                                         ELSE table[Len(table)].first)
        /\ (pc = "fwd_next"
              /\ [i \in 1 .. Len(raw) |-> raw[i].second] = <<1, 1, 2>>
              /\ 10 * loc.u = 3 * UDen) =>
              state.energy = EnergyValue(raw[2].first)

\* C4 witness: u = 0.3 sampled on the table of intensities (1,1,2) returned the
\* second entry's energy.
C4_Witness ==
    /\ pc = "fwd_next"
    /\ [i \in 1 .. Len(rawSpectrum) |-> rawSpectrum[i].second] = <<1, 1, 2>>
    /\ 10 * loc.u = 3 * UDen
    /\ state.energy = EnergyValue(rawSpectrum[2].first)

\* C4, the fallback: a sampling in which no entry satisfied the test returned
\* the last entry's energy.
C4_FallbackReached ==
    /\ pc = "fwd_next"
    /\ \A i \in 1 .. Len(detector.spectrum) :
          ~AtLeast(detector.spectrum[i].second, loc.u)
    /\ state.energy
          = EnergyValue(detector.spectrum[Len(detector.spectrum)].first)

\* C5: two RandomiseBackward calls on the same deviates with different alpha
\* in [0,1] return the same source energy and write the same position and
\* direction.
C5_SourceIndependentOfAlpha ==
    (pc = "bwd_next" /\ InUnit(alpha) /\ InUnit(twin.alpha)
        /\ twin.alpha # alpha) =>
        /\ twin.source_energy = src
        /\ twin.state.position = state.position
        /\ twin.state.direction = state.direction

\* C5 witness: two such calls whose alpha did change the energy and the weight.
C5_Witness ==
    /\ pc = "bwd_next"
    /\ InUnit(alpha) /\ InUnit(twin.alpha) /\ twin.alpha # alpha
    /\ twin.state.energy # state.energy
    /\ twin.state.weight # state.weight
    /\ twin.source_energy = src

\* C6: no RandomiseBackward call given alpha outside [0,1] returns normally.
C6_AlphaValidated == pc = "bwd_next" => InUnit(alpha)

\* C7: the constructor does not complete on a spectrum whose intensities sum
\* to zero, so no table made by dividing by a zero sum is ever observed.
C7_ZeroSpectrumRejected ==
    detector.alive =>
        /\ SumIntensities(rawSpectrum) # 0
        /\ \A i \in 1 .. Len(detector.spectrum) :
              detector.spectrum[i].second.k = "fin"

\* centre of volume v in world coordinates: the placements up to the top
RECURSIVE WorldPos(_, _)
WorldPos(sc, v) ==
    IF sc.mother[v] = "none" THEN sc.pos[v]
    ELSE [i \in Axes |-> sc.pos[v][i] + WorldPos(sc, sc.mother[v])[i]]

\* points on, just inside and just outside each face of the box (c, h)
Probes(c, h) ==
    {[i \in Axes |-> IF i = a THEN c[i] + s * (h[i] + o) ELSE c[i]] :
        a \in Axes, s \in {-1, 1}, o \in {-1, 0, 1}}

\* what C8 says of a built scene besides the frame of detectorOffset: bottom
\* face 5 cm above the ground/air interface; the placed box is the box of the
\* forward rejection test and of the backward face positions; the box is
\* strictly inside the air box.
DetectorBoxFacts(sc, d) ==
    LET c == WorldPos(sc, "Detector")
        h == sc.half["Detector"]
        airC == WorldPos(sc, "Air")
        airH == sc.half["Air"]
        interface == WorldPos(sc, "Ground")[2] + sc.half["Ground"][2]
    IN  /\ interface = airC[2] - airH[2]
        /\ c[2] - h[2] = interface + 5 * cm
        /\ \A p \in Probes(c, h) :
              OutsideDetector(d, p) <=> \E i \in Axes : Abs(p[i] - c[i]) > h[i]
        /\ \A axis \in Axes, dir \in {-1, 1} :
              FacePosition(d, axis, dir, UDen \div 2, UDen \div 2)
                 = [i \in Axes |-> IF i = axis THEN c[i] + dir * (h[i] + um)
                                   ELSE c[i]]
        /\ \A i \in Axes : /\ airC[i] - airH[i] < c[i] - h[i]
                           /\ c[i] + h[i] < airC[i] + airH[i]

\* C8 as stated: detectorOffset is the detector's vertical centre measured from
\* the centre of the air box.
C8_OffsetFromAirCentre ==
    \A t \in 1 .. MaxTrees :
        scene[t].status = "built" =>
            /\ WorldPos(scene[t], "Detector")[2] - WorldPos(scene[t], "Air")[2]
                  = detector.detectorOffset
            /\ DetectorBoxFacts(scene[t], detector)

\* C8 amended: detectorOffset is the detector's vertical centre measured from
\* the centre of the world box; measured from the centre of the air box the
\* centre is detectorOffset - groundSize[2] / 2.
C8_OffsetFromWorldCentre ==
    \A t \in 1 .. MaxTrees :
        scene[t].status = "built" =>
            /\ WorldPos(scene[t], "Detector") = Vec(0, 0, detector.detectorOffset)
            /\ WorldPos(scene[t], "Detector")[2] - WorldPos(scene[t], "Air")[2]
                  = detector.detectorOffset - Half(detector.groundSize[2])
            /\ DetectorBoxFacts(scene[t], detector)

\* C8 witness: Construct has built a scene.
C8_Witness ==
    \E t \in 1 .. MaxTrees :
        /\ scene[t].status = "built"
        /\ scene[t].daughters["Air"] = <<"Detector">>
        /\ detector.alive

Children(sc, v) == {c \in Names : sc.mother[c] = v}

Before(freed, i, obj) == \E j \in 1 .. i - 1 : freed[j] = obj

\* every object of the tree is in `freed`, once
AllReleasedOnce(sc) ==
    /\ Len(sc.freed) = Cardinality(Kinds \X Names)
    /\ \A obj \in Kinds \X Names : \E i \in 1 .. Len(sc.freed) : sc.freed[i] = obj

\* nothing is released twice, and an object of volume v is released only after
\* every child placement of v has left v's daughters and been released with
\* its logical volume and solid
PostOrder(sc) ==
    /\ \A i, j \in 1 .. Len(sc.freed) : sc.freed[i] = sc.freed[j] => i = j
    /\ \A i \in 1 .. Len(sc.freed) :
          \A c \in Children(sc, sc.freed[i][2]) :
              /\ \A k \in Kinds : Before(sc.freed, i, <<k, c>>)
              /\ \A n \in 1 .. Len(sc.daughters[sc.freed[i][2]]) :
                    sc.daughters[sc.freed[i][2]][n] # c

Running(t) == \E n \in 1 .. Len(stack) : stack[n].t = t

DropDone(t) ==
    scene[t].status = "dropped" /\ ~Running(t) /\ AllReleasedOnce(scene[t])

\* C9: DropGeometry on the top placement of a scene releases in post-order,
\* releases nothing twice, terminates, and has then released every placement,
\* logical volume and solid of the tree once.
C9_DropGeometry ==
    /\ [](\A t \in 1 .. MaxTrees :
            /\ PostOrder(scene[t])
            /\ (scene[t].status = "dropped" /\ ~Running(t)) => DropDone(t))
    /\ \A t \in 1 .. MaxTrees : (scene[t].status = "dropped") ~> DropDone(t)

\* C9 witness: a DropGeometry call has returned.
C9_Witness ==
    \E t \in 1 .. MaxTrees :
        /\ DropDone(t)
        /\ pc = "idle"
        /\ scene[t].freed[Len(scene[t].freed)] = <<"placement", "World">>

\* area of the detector face normal to axis i, in m2
FaceArea(d, i) ==
    (d.detectorSize[(i + 1) % 3] \div m) * (d.detectorSize[(i + 2) % 3] \div m)

\* C10: RandomiseBackward picks the axis whose cumulative-area bucket holds r
\* and the side -1 in the bucket's lower half, +1 in its upper half; the
\* position is 1 um outside that face along the axis and within the face on
\* the other two axes; the direction's component along the axis has sign -dir.
C10_BackwardFace ==
    pc = "bwd_next" =>
        LET d == detector
            axis == loc.axis
            dir == loc.dir
            total == FaceArea(d, 0) + FaceArea(d, 1) + FaceArea(d, 2)
            lo == IF axis = 0 THEN 0
                  ELSE IF axis = 1 THEN FaceArea(d, 0)
                  ELSE FaceArea(d, 0) + FaceArea(d, 1)
            r == total * loc.r
            centre == Vec(0, 0, d.detectorOffset)
        IN  /\ axis \in Axes
            /\ dir \in {-1, 1}
            /\ lo * UDen <= r
            /\ r <= (lo + FaceArea(d, axis)) * UDen
            /\ 2 * (r - lo * UDen) < FaceArea(d, axis) * UDen => dir = -1
            /\ 2 * (r - lo * UDen) > FaceArea(d, axis) * UDen => dir = 1
            /\ state.position[axis]
                  = InCm(centre[axis] + dir * (Half(d.detectorSize[axis]) + um))
            /\ \A i \in Axes \ {axis} :
                  /\ RLt(InCm(centre[i] - Half(d.detectorSize[i])),
                         state.position[i])
                  /\ RLt(state.position[i],
                         InCm(centre[i] + Half(d.detectorSize[i])))
            /\ state.direction[axis] * dir < 0

\* C10 witness: a call that chose the lower face normal to z (axis 2, dir -1)
\* has returned.
C10_Witness == pc = "bwd_next" /\ loc.axis = 2 /\ loc.dir = -1

====
